---------------------------- MODULE Spec2Model ----------------------------
(***************************************************************************)
(* State-machine model of the invoice analyser front end:                  *)
(*   - FileUpload (components/FileUpload.tsx): the file selection store;   *)
(*   - App (App.tsx): batch orchestration, retry, reset, history;          *)
(*   - analyzeInvoice (services/geminiService.ts): the analysis client.    *)
(* Each action is one event handler (or one resumption of an async         *)
(* handler after an await) run to completion on the single event loop.     *)
(* The HistoryItem timestamp is a wall-clock reading that no handler ever  *)
(* reads back; it is left out of the modelled HistoryItem.                 *)
(***************************************************************************)
EXTENDS Integers, Sequences, FiniteSets, TLC

(* ------------------------------ bounds -------------------------------- *)

\* Longest FileList one input/drop event delivers.
MaxAdd == 2

\* Longest history for which a new Client call is still issued.
MaxHistory == 2

(* ----------------------------- universe ------------------------------- *)

PDF == "application/pdf"

\* The File objects a user can hand to the page.  `id` is the object's
\* identity (what === compares); name, size and type are its fields.
\* f1 and f2 are two File objects of the same document.
FileObjects ==
  { [id |-> "f1", name |-> "a.pdf", size |-> 10, type |-> PDF],
    [id |-> "f2", name |-> "a.pdf", size |-> 10, type |-> PDF],
    [id |-> "f3", name |-> "a.pdf", size |-> 20, type |-> PDF],
    [id |-> "f4", name |-> "b.pdf", size |-> 20, type |-> PDF],
    [id |-> "f5", name |-> "n.txt", size |-> 10, type |-> "text/plain"] }

\* The FileLists of at most MaxAdd files.
FileLists == UNION { [1..n -> FileObjects] : n \in 0..MaxAdd }

\* The two decisions of the response schema.
Decisions == {"DEFERIDO", "INDEFERIDO"}

\* What the generative service answers to one request: a JSON text holding
\* an object of the schema with one of the two decisions, a JSON text that
\* holds no such object (the text null), a text that is not JSON, or a
\* transport error.
Responses == Decisions \cup {"JSON_NULL", "NOT_JSON", "TRANSPORT_ERROR"}

Null == "null"

VARIABLES
  selectedFiles,   \* FileUpload state: the selection
  files,           \* App state: the selection as reported by onFileChange
  appStatus,       \* App state: 'idle' | 'analyzing' | 'finished'
  analysisStates,  \* App state: Map<file name, FileAnalysisState>
  history,         \* App state: HistoryItem[]
  localStorage,    \* the item stored under HISTORY_KEY
  apiKey,          \* process.env.API_KEY is set
  mounted,         \* App's mount effect has run
  handler,         \* the async handler suspended at its await: none/batch/retry
  retryIdx,        \* index in files of handleRetryAnalysis's fileToRetry
  calls,           \* per index of files: the latest runAnalysisForFile promise
  lastEvent,       \* history variable: the handler that ran last and its input
  clearedSinceAppend \* history variable: handleClearHistory ran, no append since

vars == <<selectedFiles, files, appStatus, analysisStates, history, localStorage,
          apiKey, mounted, handler, retryIdx, calls, lastEvent, clearedSinceAppend>>

(* ------------------------------ helpers ------------------------------- *)

Range(s) == { s[i] : i \in 1..Len(s) }

\* faulty variant: the files are compared as objects
SameObject(f, g) == f = g

\* existingFile.name === newFile.name && existingFile.size === newFile.size
SameDocument(f, g) == f.name = g.name /\ f.size = g.size

(* ---------------------------- localStorage ---------------------------- *)

\* The item under HISTORY_KEY: none, a text JSON.parse rejects, or the text
\* JSON.stringify wrote for a history.
Absent == [kind |-> "absent", val |-> <<>>]
Garbage == [kind |-> "garbage", val |-> <<>>]
Stored(h) == [kind |-> "json", val |-> h]

\* Items no session of this program wrote: the empty text, and the JSON text
\* of an object that is not an array ({"a": 1}); val is what JSON.parse gives.
EmptyText == [kind |-> "empty", val |-> <<>>]
StoredObject == [kind |-> "json_object", val |-> [a |-> 1]]

\* `if (savedHistory)`: the item exists and is not the empty text
Truthy(item) == item.kind \notin {"absent", "empty"}

\* JSON.parse(savedHistory) returns (does not throw)
Parses(item) == item.kind \in {"json", "json_object"}

(* ------------------------- FileUpload component ----------------------- *)

\* the forEach of processFiles: push each new file no already collected
\* file equals in (name, size)
RECURSIVE PushNew(_, _)
PushNew(updatedFiles, pdfFiles) ==
  IF pdfFiles = <<>> THEN updatedFiles
  ELSE LET newFile == Head(pdfFiles)
       IN IF \E i \in 1..Len(updatedFiles) : SameDocument(updatedFiles[i], newFile)
          THEN PushNew(updatedFiles, Tail(pdfFiles))
          ELSE PushNew(Append(updatedFiles, newFile), Tail(pdfFiles))

\* faulty variant: files of every type pass the filter
AnyType(file) == TRUE

\* file.type === "application/pdf"
IsPdf(file) == file.type = PDF

PdfFiles(newFiles) == SelectSeq(newFiles, IsPdf)

\* the history section is rendered
HistoryRendered ==
  Len(history) > 0 /\ (appStatus = "idle" \/ appStatus = "finished")

\* rendering the history section reads item.result.status of every item,
\* which throws for an item whose result is null; React then unmounts App
RenderThrows ==
  mounted /\ HistoryRendered /\ \E k \in 1..Len(history) : history[k].result = Null

\* App is on the page, its handlers can be reached
Rendered == mounted /\ ~RenderThrows

\* renderContent mounts FileUpload only while the app is idle
FileUploadMounted == Rendered /\ appStatus = "idle"

\* FileUpload's `disabled` prop
Disabled == appStatus = "analyzing"

\* App.handleFileChange, FileUpload's onFileChange
HandleFileChange(selected) ==
  /\ files' = selected
  /\ IF appStatus = "finished"
     THEN appStatus' = "idle" /\ analysisStates' = <<>>
     ELSE UNCHANGED <<appStatus, analysisStates>>

ProcessFiles(newFiles) ==
  /\ lastEvent' = [op |-> "processFiles", arg |-> newFiles]
  /\ IF Len(PdfFiles(newFiles)) > 0
     THEN LET updatedFiles == PushNew(selectedFiles, PdfFiles(newFiles))
          IN /\ selectedFiles' = updatedFiles
             /\ HandleFileChange(updatedFiles)
     ELSE UNCHANGED <<selectedFiles, files, appStatus, analysisStates>>
  /\ UNCHANGED <<history, localStorage, apiKey, mounted, handler, retryIdx, calls,
                 clearedSinceAppend>>

\* faulty variant: the files are filtered by name
WithoutName(selected, fileToRemove) ==
  LET Other(file) == file.name # fileToRemove.name
  IN SelectSeq(selected, Other)

\* selectedFiles.filter(file => file !== fileToRemove)
WithoutFile(selected, fileToRemove) ==
  LET Other(file) == file # fileToRemove
  IN SelectSeq(selected, Other)

RemoveFile(fileToRemove) ==
  /\ lastEvent' = [op |-> "removeFile", arg |-> fileToRemove]
  /\ LET updatedFiles == WithoutFile(selectedFiles, fileToRemove)
     IN /\ selectedFiles' = updatedFiles
        /\ HandleFileChange(updatedFiles)
  /\ UNCHANGED <<history, localStorage, apiKey, mounted, handler, retryIdx, calls,
                 clearedSinceAppend>>

ClearAll ==
  /\ lastEvent' = [op |-> "clearAll", arg |-> Null]
  /\ selectedFiles' = <<>>
  /\ HandleFileChange(<<>>)
  /\ UNCHANGED <<history, localStorage, apiKey, mounted, handler, retryIdx, calls,
                 clearedSinceAppend>>

(* ------------------------------- Init --------------------------------- *)

Init ==
  /\ selectedFiles = <<>>
  /\ files = <<>>
  /\ appStatus = "idle"
  /\ analysisStates = <<>>
  /\ history = <<>>
  /\ localStorage \in {Absent, Garbage}
  /\ apiKey \in BOOLEAN
  /\ mounted = FALSE
  /\ handler = "none"
  /\ retryIdx = 0
  /\ calls = <<>>
  /\ lastEvent = [op |-> "init", arg |-> Null]
  /\ clearedSinceAppend = FALSE


(* --------------------------- analysis client -------------------------- *)

Resolved(value) == [ok |-> TRUE, value |-> value, message |-> Null]
Rejected(message) == [ok |-> FALSE, value |-> Null, message |-> message]

\* JSON.parse(rawText) as AnalysisResult.  An object of the schema is
\* represented by its status; the cast checks nothing.
ParsedResult(response) ==
  IF response = "JSON_NULL" THEN Null ELSE response

\* analyzeInvoice: how the promise of one request settles
AnalyzeInvoice(hasKey, response) ==
  IF ~hasKey
  THEN Rejected("API key not found. Please set the API_KEY environment variable.")
  ELSE IF response = "TRANSPORT_ERROR"
  THEN Rejected("transport error")
  ELSE IF response = "NOT_JSON"
  THEN Rejected("A resposta da IA nao estava no formato JSON esperado.")
  ELSE Resolved(ParsedResult(response))

(* ------------------------------- App ---------------------------------- *)

Undefined == [status |-> "undefined", result |-> Null, error |-> Null]

AnalyzingState == [status |-> "analyzing", result |-> Null, error |-> Null]

SuccessState(analysisResult) ==
  [status |-> "success", result |-> analysisResult, error |-> Null]

ErrorState(errorMessage) ==
  [status |-> "error", result |-> Null, error |-> "Falha na analise: " \o errorMessage]

\* Map.prototype.get
MapGet(map, key) == IF key \in DOMAIN map THEN map[key] ELSE Undefined

\* faulty variant: the map a completion copies is the one its handler started with,
\* every other entry still 'analyzing'
MapSetStale(prev, key, value) ==
  [k \in DOMAIN prev \cup {key} |->
     IF k = key THEN value
     ELSE [status |-> "analyzing", result |-> Null, error |-> Null]]

\* prev => new Map(prev).set(key, value)
MapSet(prev, key, value) ==
  [k \in DOMAIN prev \cup {key} |-> IF k = key THEN value ELSE prev[k]]

\* faulty variant: the forEach stops after the first file
InitialStatesFirst(fs) ==
  [name \in { fs[i].name : i \in 1..Len(fs) \cap {1} } |->
     [status |-> "analyzing", result |-> Null, error |-> Null]]

\* the forEach of handleAnalyzeClick filling initialStates
InitialStates(fs) == [name \in { f.name : f \in Range(fs) } |-> AnalyzingState]

\* renderContent: the state shown in a file's row
StateOf(file) == MapGet(analysisStates, file.name)

HistoryItem(file, analysisResult) == [fileName |-> file.name, result |-> analysisResult]

\* faulty variant: the earlier items are dropped
UpdatedHistoryLost(prevHistory, newHistoryItem) == <<newHistoryItem>>

\* prevHistory => [newHistoryItem, ...prevHistory]
UpdatedHistory(prevHistory, newHistoryItem) == <<newHistoryItem>> \o prevHistory

\* faulty variant: the write's exception leaves the updater
SetHistoryUpdaterThrows(prevHistory, newHistoryItem, writeOk) ==
  IF writeOk THEN <<newHistoryItem>> \o prevHistory ELSE prevHistory

\* the updater handed to setHistory: its try/catch keeps a failed write inside,
\* and it returns updatedHistory either way
SetHistoryUpdater(prevHistory, newHistoryItem, writeOk) ==
  UpdatedHistory(prevHistory, newHistoryItem)

\* faulty variant: removeItem leaves the stored item as it was
AfterRemoveItemKept(store) == store

\* localStorage after removeItem(HISTORY_KEY)
AfterRemoveItem(store) == Absent

\* faulty variant: the write stores the history without the new item
AfterSetItemStale(store, updatedHistory, writeOk) ==
  IF writeOk THEN Stored(Tail(updatedHistory)) ELSE store

\* localStorage after setItem(HISTORY_KEY, JSON.stringify(updatedHistory)),
\* which throws (and is caught) when the store rejects the write
AfterSetItem(store, updatedHistory, writeOk) ==
  IF writeOk THEN Stored(updatedHistory) ELSE store

isAnalyzing == appStatus = "analyzing"

\* a call of runAnalysisForFile(file) suspended at `await analyzeInvoice(file)`;
\* its continuation keeps the file it was called with
PendingCall(kind, file) ==
  [st |-> "pending", kind |-> kind, outcome |-> Null, file |-> file]

IsPending(call) == call.st = "pending"
SettledCall(call, outcome) == [call EXCEPT !.st = "settled", !.outcome = outcome]

\* faulty variant: one settled promise is enough (Promise.race)
AnySettled(awaited) == \E i \in awaited : calls[i].st = "settled"

\* the promises the suspended handler awaits have all settled
AllSettled(awaited) == \A i \in awaited : calls[i].st = "settled"

Awaited == IF handler = "batch" THEN DOMAIN calls ELSE {retryIdx}

\* faulty variant: the retry button is rendered in every row that has a state
RetryButtonAlways(state) == state.status # "undefined"

\* the retry button is rendered in the row of a file whose state is 'error'
RetryButtonRendered(state) == state.status = "error"

\* the mount effect: load the saved history
LoadHistory ==
  /\ ~mounted
  /\ mounted' = TRUE
  /\ lastEvent' = [op |-> "loadHistory", arg |-> Null]
  /\ IF Truthy(localStorage) /\ Parses(localStorage)
     THEN history' = localStorage.val /\ UNCHANGED localStorage
     ELSE IF Truthy(localStorage)
     THEN localStorage' = AfterRemoveItem(localStorage) /\ UNCHANGED history
     ELSE UNCHANGED <<history, localStorage>>
  /\ UNCHANGED <<selectedFiles, files, appStatus, analysisStates, apiKey, handler,
                 retryIdx, calls, clearedSinceAppend>>

\* the file input and the drop zone are rendered while nothing is selected
InputRendered == Len(selectedFiles) = 0

HandleChange(newFiles) ==
  /\ FileUploadMounted /\ InputRendered
  /\ ~Disabled
  /\ ProcessFiles(newFiles)

HandleDrop(newFiles) ==
  /\ FileUploadMounted /\ InputRendered
  /\ ~Disabled
  /\ ProcessFiles(newFiles)

\* "Adicionar mais arquivos...": inputRef.current?.click().  The button is
\* rendered with the list of selected files and the input only with the drop
\* zone, so inputRef.current is null here and the click opens no file dialog.
AddMoreClick ==
  /\ FileUploadMounted /\ Len(selectedFiles) > 0 /\ ~InputRendered
  /\ ~Disabled
  /\ lastEvent' = [op |-> "addMoreClick", arg |-> Null]
  /\ UNCHANGED <<selectedFiles, files, appStatus, analysisStates, history,
                 localStorage, apiKey, mounted, handler, retryIdx, calls,
                 clearedSinceAppend>>

HandleRemoveFile(i) ==
  /\ FileUploadMounted /\ i \in 1..Len(selectedFiles)
  /\ ~Disabled
  /\ RemoveFile(selectedFiles[i])

HandleClearAll ==
  /\ FileUploadMounted /\ Len(selectedFiles) > 0
  /\ ~Disabled
  /\ ClearAll

HandleAnalyzeClick ==
  /\ Rendered /\ appStatus = "idle" /\ Len(files) > 0 /\ ~isAnalyzing
  /\ Len(history) + Len(files) <= MaxHistory
  /\ appStatus' = "analyzing"
  /\ analysisStates' = InitialStates(files)
  /\ calls' = [i \in 1..Len(files) |-> PendingCall("batch", files[i])]
  /\ handler' = "batch"
  /\ selectedFiles' = <<>>
  /\ lastEvent' = [op |-> "analyzeClick", arg |-> Null]
  /\ UNCHANGED <<files, history, localStorage, apiKey, mounted, retryIdx,
                 clearedSinceAppend>>

\* runAnalysisForFile resumes after `await analyzeInvoice(file)`
RunAnalysisForFile(i, response, writeOk) ==
  /\ mounted /\ i \in DOMAIN calls /\ calls[i].st = "pending"
  /\ LET file == calls[i].file
         outcome == AnalyzeInvoice(apiKey, response)
     IN /\ calls' = [calls EXCEPT ![i] = SettledCall(calls[i], outcome)]
        /\ IF outcome.ok
           THEN LET newHistoryItem == HistoryItem(file, outcome.value)
                    updatedHistory == UpdatedHistory(history, newHistoryItem)
                IN /\ analysisStates' =
                        MapSet(analysisStates, file.name, SuccessState(outcome.value))
                   /\ history' = SetHistoryUpdater(history, newHistoryItem, writeOk)
                   /\ localStorage' = AfterSetItem(localStorage, updatedHistory, writeOk)
                   /\ clearedSinceAppend' = FALSE
           ELSE /\ analysisStates' =
                     MapSet(analysisStates, file.name, ErrorState(outcome.message))
                /\ UNCHANGED <<history, localStorage, clearedSinceAppend>>
        /\ lastEvent' = [op |-> "completion",
                         arg |-> [i |-> i, ok |-> outcome.ok,
                                  writeFailed |-> outcome.ok /\ ~writeOk]]
  /\ UNCHANGED <<selectedFiles, files, appStatus, apiKey, mounted, handler, retryIdx>>

\* handleAnalyzeClick / handleRetryAnalysis resume after their await
HandlerResumes ==
  /\ mounted /\ handler # "none"
  /\ AllSettled(Awaited)
  /\ appStatus' = "finished"
  /\ handler' = "none"
  /\ lastEvent' = [op |-> "resume", arg |-> Null]
  /\ UNCHANGED <<selectedFiles, files, analysisStates, history, localStorage, apiKey,
                 mounted, retryIdx, calls, clearedSinceAppend>>

\* faulty variant: the retry button is never disabled
RetryNeverDisabled == FALSE

\* disabled={isAnalyzing} of the retry button
RetryDisabled == isAnalyzing

HandleRetryAnalysis(i) ==
  /\ Rendered /\ appStatus # "idle" /\ i \in 1..Len(files)
  /\ RetryButtonRendered(StateOf(files[i]))
  /\ ~RetryDisabled
  /\ Len(history) + 1 <= MaxHistory
  /\ appStatus' = "analyzing"
  /\ analysisStates' = MapSet(analysisStates, files[i].name, AnalyzingState)
  /\ calls' = [calls EXCEPT ![i] = PendingCall("retry", files[i])]
  /\ handler' = "retry"
  /\ retryIdx' = i
  /\ lastEvent' = [op |-> "retry", arg |-> i]
  /\ UNCHANGED <<selectedFiles, files, history, localStorage, apiKey, mounted,
                 clearedSinceAppend>>

\* faulty variant: the reset button is never disabled
ResetNeverDisabled == FALSE

\* disabled={isAnalyzing} of the reset button
ResetDisabled == isAnalyzing

\* handleReset replaces the state; calls still awaiting a reply are not aborted
HandleReset ==
  /\ Rendered /\ (appStatus = "finished" \/ isAnalyzing)
  /\ ~ResetDisabled
  /\ files' = <<>>
  /\ appStatus' = "idle"
  /\ analysisStates' = <<>>
  /\ selectedFiles' = <<>>
  /\ calls' = SelectSeq(calls, IsPending)
  /\ retryIdx' = 0
  /\ lastEvent' = [op |-> "reset", arg |-> Null]
  /\ UNCHANGED <<history, localStorage, apiKey, mounted, handler, clearedSinceAppend>>

\* faulty variant: the clear drops the newest item only
ClearedNewest(prevHistory) == Tail(prevHistory)

\* setHistory([])
ClearedHistory(prevHistory) == <<>>

HandleClearHistory ==
  /\ Rendered /\ HistoryRendered
  /\ localStorage' = AfterRemoveItem(localStorage)
  /\ history' = ClearedHistory(history)
  /\ clearedSinceAppend' = TRUE
  /\ lastEvent' = [op |-> "clearHistory", arg |-> Null]
  /\ UNCHANGED <<selectedFiles, files, appStatus, analysisStates, apiKey, mounted,
                 handler, retryIdx, calls>>

\* the page is loaded anew: App is constructed again, localStorage survives
NewSession ==
  /\ mounted
  /\ selectedFiles' = <<>>
  /\ files' = <<>>
  /\ appStatus' = "idle"
  /\ analysisStates' = <<>>
  /\ history' = <<>>
  /\ mounted' = FALSE
  /\ handler' = "none"
  /\ retryIdx' = 0
  /\ calls' = <<>>
  /\ lastEvent' = [op |-> "newSession", arg |-> Null]
  /\ UNCHANGED <<localStorage, apiKey, clearedSinceAppend>>

Next ==
  \/ LoadHistory
  \/ FileUploadMounted /\ \E newFiles \in FileLists : HandleChange(newFiles)
  \/ FileUploadMounted /\ \E newFiles \in FileLists : HandleDrop(newFiles)
  \/ \E i \in 1..MaxAdd : HandleRemoveFile(i)
  \/ AddMoreClick
  \/ HandleClearAll
  \/ HandleAnalyzeClick
  \/ \E i \in 1..MaxAdd, response \in Responses, writeOk \in BOOLEAN :
       RunAnalysisForFile(i, response, writeOk)
  \/ HandlerResumes
  \/ \E i \in 1..MaxAdd : HandleRetryAnalysis(i)
  \/ HandleReset
  \/ HandleClearHistory
  \/ NewSession

Spec == Init /\ [][Next]_vars

(* --------------- the selection store driven on its own ---------------- *)

StoreAdd == \E newFiles \in FileLists : ProcessFiles(newFiles)

StoreRemoveOne == \E target \in FileObjects : RemoveFile(target)

StoreClear == ClearAll

NextStore == StoreAdd \/ StoreRemoveOne \/ StoreClear

SpecStore == Init /\ [][NextStore]_vars

(* ------------- the load at startup over every stored item ------------- *)

\* the items a stored history can hold
StoredItems == [fileName : {f.name : f \in FileObjects}, result : Decisions]

StoredHistories == UNION {[1..n -> StoredItems] : n \in 0..MaxHistory}

\* what localStorage can hold under HISTORY_KEY when a session starts
Blobs == {Absent, Garbage, EmptyText, StoredObject} \cup {Stored(h) : h \in StoredHistories}

InitBlob ==
  /\ selectedFiles = <<>>
  /\ files = <<>>
  /\ appStatus = "idle"
  /\ analysisStates = <<>>
  /\ history = <<>>
  /\ localStorage \in Blobs
  /\ apiKey \in BOOLEAN
  /\ mounted = FALSE
  /\ handler = "none"
  /\ retryIdx = 0
  /\ calls = <<>>
  /\ lastEvent = [op |-> "init", arg |-> Null]
  /\ clearedSinceAppend = FALSE

NextBlob == LoadHistory \/ NewSession

SpecBlob == InitBlob /\ [][NextBlob]_vars

(* ============================== claims ================================ *)

DistinctNames(fs) ==
  \A i, j \in 1..Len(fs) : i # j => fs[i].name # fs[j].name

NoDuplicates(fs) ==
  \A i, j \in 1..Len(fs) : i # j => ~(fs[i].name = fs[j].name /\ fs[i].size = fs[j].size)

\* the state a file's own latest call leaves behind once it has settled
OwnState(i) ==
  IF calls[i].outcome.ok
  THEN [status |-> "success", result |-> calls[i].outcome.value, error |-> Null]
  ELSE [status |-> "error", result |-> Null,
        error |-> "Falha na analise: " \o calls[i].outcome.message]

Shown(i) == StateOf(files[i])

FailedCalls == { i \in DOMAIN calls : calls[i].st = "settled" /\ ~calls[i].outcome.ok }
SucceededCalls == { i \in DOMAIN calls : calls[i].st = "settled" /\ calls[i].outcome.ok }

\* C1: with pairwise distinct names, every settled call's file shows that
\* call's outcome and every pending call's file shows 'analyzing' (no update
\* is lost or overwritten); so once all n calls have settled, the files in
\* 'error' are exactly the k whose call failed and the files in 'success'
\* exactly the n-k whose call succeeded, whatever the order of completion.
C1_BatchOutcomes ==
  (calls # <<>> /\ DistinctNames(files)) =>
    /\ \A i \in DOMAIN calls :
         /\ calls[i].st = "pending" => Shown(i).status = "analyzing"
         /\ i \in FailedCalls => Shown(i).status = "error"
         /\ i \in SucceededCalls =>
              Shown(i).status = "success" /\ Shown(i).result = calls[i].outcome.value
    /\ AllSettled(DOMAIN calls) =>
         /\ Cardinality({ i \in DOMAIN calls : Shown(i).status = "error" })
              = Cardinality(FailedCalls)
         /\ Cardinality({ i \in DOMAIN calls : Shown(i).status = "success" })
              = Cardinality(DOMAIN calls) - Cardinality(FailedCalls)

\* a batch of two differently named files has settled, the second file's
\* call first (success) and the first file's call last (failure)
C1_Witness ==
  /\ handler = "batch" /\ Len(files) = 2 /\ DistinctNames(files)
  /\ AllSettled(DOMAIN calls)
  /\ lastEvent.op = "completion" /\ lastEvent.arg.i = 1
  /\ FailedCalls = {1} /\ SucceededCalls = {2}
  /\ Shown(1).status = "error" /\ Shown(2).status = "success"

\* C2: once the batch has finished, each selected file shows the outcome of
\* its own Client call, also when two selected files share a name.
C2_NoMerge ==
  (appStatus = "finished" /\ \A i \in DOMAIN calls : calls[i].kind = "batch") =>
    \A i \in DOMAIN calls : Shown(i).status = OwnState(i).status
                            /\ Shown(i).result = OwnState(i).result

\* C3: from the invocation of retry(d) until its call has settled, the state
\* shown for every other selected file is unchanged.
C3_RetryFrame ==
  [][handler' = "retry" =>
       \A j \in 1..Len(files) :
          j # retryIdx' =>
            MapGet(analysisStates', files[j].name) = MapGet(analysisStates, files[j].name)]_vars

\* C4: a step in which a Client call settles successfully prepends exactly
\* the item of that file and verdict to the history, a step in which a call
\* fails leaves the history alone, and in a running session the history
\* grows in no other step.
C4_HistoryPerSuccess ==
  [][/\ \A i \in DOMAIN calls :
          (i \in DOMAIN calls' /\ calls[i].st = "pending" /\ calls'[i].st = "settled") =>
            IF calls'[i].outcome.ok
            THEN history' = <<[fileName |-> files[i].name,
                               result |-> calls'[i].outcome.value]>> \o history
            ELSE history' = history
     /\ (mounted /\ Len(history') > Len(history)) =>
          \E i \in DOMAIN calls :
             /\ i \in DOMAIN calls' /\ calls[i].st = "pending"
             /\ calls'[i].st = "settled" /\ calls'[i].outcome.ok]_vars

\* a file whose batch call failed has just been retried with success, and
\* the history holds the one item of that retry
C4_Witness ==
  /\ lastEvent.op = "completion" /\ lastEvent.arg.ok
  /\ DistinctNames(files) /\ Len(files) = 2
  /\ calls[lastEvent.arg.i].kind = "retry"
  /\ Len(history) = 1 /\ history[1].fileName = files[lastEvent.arg.i].name
  /\ history[1].result = calls[lastEvent.arg.i].outcome.value
  /\ FailedCalls # {}

\* C5: while the batch handler awaits, the status is 'analyzing'; whenever
\* the status is 'finished', every call has settled and no entry of the state
\* map is 'analyzing'; a call in flight implies status 'analyzing'.
C5_FinishedOnlyWhenSettled ==
  /\ handler # "none" => appStatus = "analyzing"
  /\ appStatus = "finished" =>
       /\ \A i \in DOMAIN calls : calls[i].st = "settled"
       /\ \A name \in DOMAIN analysisStates : analysisStates[name].status # "analyzing"
  /\ (\E i \in DOMAIN calls : calls[i].st = "pending") => appStatus = "analyzing"

\* a batch of two has finished, one call failed and one succeeded
C5_Witness ==
  /\ appStatus = "finished" /\ Len(files) = 2
  /\ \A i \in DOMAIN calls : calls[i].kind = "batch"
  /\ FailedCalls # {} /\ SucceededCalls # {}

\* C6: a step that issues a retry call for a file, or that turns an entry of
\* the state map to 'analyzing', starts from a state in which that file's
\* (that entry's) status is 'error'.
C6_RetryOnlyFailed ==
  [][/\ \A i \in DOMAIN calls :
          (i \in DOMAIN calls' /\ calls'[i] # calls[i] /\ calls'[i].st = "pending") =>
            (calls'[i].kind = "retry" /\ calls[i].st = "settled"
             /\ StateOf(files[i]).status = "error")
     /\ \A name \in DOMAIN analysisStates :
          (name \in DOMAIN analysisStates'
           /\ analysisStates[name].status # "analyzing"
           /\ analysisStates'[name].status = "analyzing") =>
            analysisStates[name].status = "error"]_vars

\* a retry has just been issued for one file while another file stays 'success'
C6_Witness ==
  /\ lastEvent.op = "retry" /\ calls[lastEvent.arg].st = "pending"
  /\ calls[lastEvent.arg].kind = "retry"
  /\ \E j \in DOMAIN calls : Shown(j).status = "success"

\* C7: the selection, in FileUpload and as reported to App, never holds two
\* files equal in (name, size).
C7_SelectionUnique == NoDuplicates(selectedFiles) /\ NoDuplicates(files)

\* an add has just delivered two PDF files equal in (name, size), and the
\* selection holds one file of that (name, size)
C7_Witness ==
  /\ lastEvent.op = "processFiles"
  /\ \E i, j \in 1..Len(lastEvent.arg) :
        /\ i < j
        /\ lastEvent.arg[i].type = PDF
        /\ lastEvent.arg[i].name = lastEvent.arg[j].name
        /\ lastEvent.arg[i].size = lastEvent.arg[j].size
        /\ Cardinality({ k \in 1..Len(selectedFiles) :
                           /\ selectedFiles[k].name = lastEvent.arg[i].name
                           /\ selectedFiles[k].size = lastEvent.arg[i].size }) = 1
  /\ Len(selectedFiles) >= 2

\* C8: removeOne(target) takes out the one selected file that is the object
\* target, keeping the others in their order; with target not selected, the
\* selection is unchanged.  App is told the same selection.
C8_RemoveOneFrame ==
  [][lastEvent'.op = "removeFile" =>
       LET target == lastEvent'.arg
       IN /\ IF \E k \in 1..Len(selectedFiles) : selectedFiles[k] = target
             THEN \E k \in 1..Len(selectedFiles) :
                     /\ selectedFiles[k] = target
                     /\ selectedFiles' = SubSeq(selectedFiles, 1, k - 1)
                                           \o SubSeq(selectedFiles, k + 1, Len(selectedFiles))
             ELSE selectedFiles' = selectedFiles
          /\ files' = selectedFiles']_vars

\* a remove has just run whose target is not selected while another File
\* object of the same (name, size) is, next to a second selected file
C8_Witness ==
  /\ lastEvent.op = "removeFile"
  /\ Len(selectedFiles) >= 2
  /\ \A k \in 1..Len(selectedFiles) : selectedFiles[k] # lastEvent.arg
  /\ \E k \in 1..Len(selectedFiles) :
        /\ selectedFiles[k].name = lastEvent.arg.name
        /\ selectedFiles[k].size = lastEvent.arg.size

\* C9: after a clear with no append since, the stored item is gone and the
\* history in memory is empty, in the same session and after any reload.
C9_ClearThenLoadEmpty ==
  clearedSinceAppend => (localStorage.kind = "absent" /\ history = <<>>)

\* the history was cleared, the page loaded anew, and its load has run
C9_Witness ==
  /\ clearedSinceAppend /\ mounted /\ lastEvent.op = "loadHistory"

\* C10: a successful completion whose persistence write fails leaves its file
\* in 'success' with the verdict, prepends the item to the history in memory,
\* leaves the stored item as it was, and turns no entry to 'error'.
C10_WriteFailureAbsorbed ==
  [][(lastEvent'.op = "completion" /\ lastEvent'.arg.writeFailed) =>
       LET i == lastEvent'.arg.i
       IN /\ MapGet(analysisStates', files[i].name) =
               [status |-> "success", result |-> calls'[i].outcome.value, error |-> Null]
          /\ history' = <<[fileName |-> files[i].name,
                           result |-> calls'[i].outcome.value]>> \o history
          /\ localStorage' = localStorage
          /\ \A name \in DOMAIN analysisStates' :
               analysisStates'[name].status = "error" =>
                 (name \in DOMAIN analysisStates /\ analysisStates[name].status = "error")]_vars

\* a completion's write has just failed: the history in memory is one item
\* ahead of the stored one
C10_Witness ==
  /\ lastEvent.op = "completion" /\ lastEvent.arg.writeFailed
  /\ Len(history) = 2
  /\ localStorage.kind = "json" /\ Len(localStorage.val) = 1
  /\ Shown(lastEvent.arg.i).status = "success"


\* C11: the load at startup yields the stored sequence when the item holds one,
\* and otherwise the empty sequence with the item deleted (an absent item
\* yields the empty sequence).
C11_LoadYieldsSequence ==
  [][(~mounted /\ mounted') =>
       IF localStorage.kind = "json"
       THEN history' = localStorage.val /\ localStorage' = localStorage
       ELSE history' = <<>> /\ localStorage' = Absent]_vars

\* C12: analyzeInvoice rejects every reply that is not an object of the
\* schema, so a settled call that resolved carries a verdict whose decision is
\* DEFERIDO or INDEFERIDO, and a file in 'success' shows such a verdict.
C12_SuccessOnlyConforming ==
  /\ \A i \in DOMAIN calls :
       (calls[i].st = "settled" /\ calls[i].outcome.ok) =>
         calls[i].outcome.value \in Decisions
  /\ \A name \in DOMAIN analysisStates :
       analysisStates[name].status = "success" =>
         analysisStates[name].result \in Decisions

\* C13: a step in which a Client call fails turns the file of that call to
\* 'error' with a message and changes the state shown for no other file; the
\* step leaves the batch-level status and the running session as they were.
C13_FailureStaysLocal ==
  [][\A i \in DOMAIN calls :
       (i \in DOMAIN calls' /\ calls[i].st = "pending" /\ calls'[i].st = "settled"
          /\ ~calls'[i].outcome.ok) =>
         /\ MapGet(analysisStates', files[i].name).status = "error"
         /\ MapGet(analysisStates', files[i].name).error # Null
         /\ \A j \in 1..Len(files) :
              j # i => MapGet(analysisStates', files[j].name)
                         = MapGet(analysisStates, files[j].name)
         /\ appStatus' = appStatus /\ mounted']_vars

\* the sequence a load at the start of the next session would yield
StoredSeq == IF localStorage.kind = "json" THEN localStorage.val ELSE <<>>

IsSuffix(s, t) ==
  Len(s) <= Len(t) /\ SubSeq(t, Len(t) - Len(s) + 1, Len(t)) = s

\* C14 as stated: in a running session every entry of the in-memory history
\* is in the stored sequence, which is what the next session loads (after a
\* clear both are empty).
C14_EveryEntryPersisted == mounted => StoredSeq = history

\* C14, amended: an entry of the in-memory history is in the sequence the
\* next session loads unless the history was cleared in between or the store
\* rejected the write of its append and of every later append of the session.
\* The load yields the stored sequence, a reload leaves the store alone, the
\* stored sequence is always the oldest part of the in-memory history, and
\* after every accepted write the two are equal.
C14_PersistedEntriesSurvive ==
  [][/\ (~mounted /\ mounted') => history' = StoredSeq
     /\ (mounted /\ ~mounted') => localStorage' = localStorage
     /\ mounted' => IsSuffix(StoredSeq', history')
     /\ (lastEvent'.op = "completion" /\ lastEvent'.arg.ok /\ ~lastEvent'.arg.writeFailed)
          => StoredSeq' = history']_vars

C14_Witness ==
  mounted /\ lastEvent.op = "loadHistory" /\ Len(history) > 0 /\ history = StoredSeq

\* C15: between a batch start and the next reset the state shown for each
\* file changes only from 'analyzing' to 'success' or 'error', or from
\* 'error' to 'analyzing' by a retry of that very file; so a file in 'success'
\* keeps its state and verdict, and a file in 'error' keeps its message until
\* it is retried.
C15_DocumentTransitions ==
  [][(appStatus # "idle" /\ appStatus' # "idle" /\ files' = files) =>
       \A j \in 1..Len(files) :
         LET old == MapGet(analysisStates, files[j].name)
             new == MapGet(analysisStates', files[j].name)
         IN \/ new = old
            \/ old.status = "analyzing" /\ new.status \in {"success", "error"}
            \/ /\ old.status = "error" /\ new.status = "analyzing"
               /\ lastEvent' = [op |-> "retry", arg |-> j]]_vars

\* C16: every entry of analysisStates has, in 'analyzing', neither result nor
\* error; in 'success', a result and no error; in 'error', an error and no
\* result.
C16_EntryShape ==
  \A name \in DOMAIN analysisStates :
    LET state == analysisStates[name]
    IN /\ state.status \in {"analyzing", "success", "error"}
       /\ state.status = "analyzing" => (state.result = Null /\ state.error = Null)
       /\ state.status = "success" => (state.result # Null /\ state.error = Null)
       /\ state.status = "error" => (state.result = Null /\ state.error # Null)

\* C17: a reset or a batch start happens only while no Client call is in
\* flight, and a call that settles was issued for the batch on display: the
\* step changes, in the current state map, only the entry of that call's file
\* (no completion of an earlier batch adds or changes an entry).
C17_NoStaleCompletion ==
  [][/\ lastEvent'.op \in {"reset", "analyzeClick"} =>
          \A i \in DOMAIN calls : ~IsPending(calls[i])
     /\ \A i \in DOMAIN calls :
          (IsPending(calls[i]) /\ i \in DOMAIN calls' /\ ~IsPending(calls'[i])) =>
            /\ appStatus = "analyzing"
            /\ i \in 1..Len(files) /\ files[i] = calls[i].file
            /\ DOMAIN analysisStates' = DOMAIN analysisStates
            /\ \A name \in DOMAIN analysisStates :
                 name # calls[i].file.name =>
                   analysisStates'[name] = analysisStates[name]]_vars

\* a call of a second batch of one session has settled: two items in memory,
\* none stored, one file on display (the first batch ended in a reset)
C17_Witness ==
  /\ mounted /\ lastEvent.op = "completion"
  /\ Len(files) = 1 /\ Len(history) = 2 /\ localStorage.kind = "absent"

\* the positions of incoming whose file is a PDF with a (name, size) that is
\* neither selected already nor delivered at an earlier position of incoming
Accepted(prev, incoming) ==
  { i \in 1..Len(incoming) :
      /\ incoming[i].type = PDF
      /\ \A k \in 1..Len(prev) :
           ~(prev[k].name = incoming[i].name /\ prev[k].size = incoming[i].size)
      /\ \A j \in 1..(i - 1) :
           ~(incoming[j].type = PDF /\ incoming[j].name = incoming[i].name
               /\ incoming[j].size = incoming[i].size) }

\* C18: an add yields the files selected before, in their order, followed by
\* the incoming PDF files whose (name, size) is not yet present, in input
\* order; files of another type are left out, and an add without any PDF
\* changes nothing.  App is told the new selection whenever a PDF came in.
C18_AddAppendsNewPdfs ==
  [][lastEvent'.op = "processFiles" =>
       LET incoming == lastEvent'.arg
           acc == Accepted(selectedFiles, incoming)
           n == Cardinality(acc)
           m == Len(selectedFiles)
       IN /\ Len(selectedFiles') = m + n
          /\ SubSeq(selectedFiles', 1, m) = selectedFiles
          /\ \E g \in [1..n -> acc] :
               /\ \A a, b \in 1..n : a < b => g[a] < g[b]
               /\ \A a \in 1..n : selectedFiles'[m + a] = incoming[g[a]]
          /\ IF \E i \in 1..Len(incoming) : incoming[i].type = PDF
             THEN files' = selectedFiles'
             ELSE files' = files /\ selectedFiles' = selectedFiles]_vars

\* an add of a file that is not a PDF and of a new PDF has run on a selection
\* of one file: the selection is that file followed by the new PDF
C18_Witness ==
  /\ lastEvent.op = "processFiles"
  /\ Len(lastEvent.arg) = 2
  /\ lastEvent.arg[1].type # PDF /\ lastEvent.arg[2].type = PDF
  /\ Len(selectedFiles) = 2
  /\ selectedFiles[2] = lastEvent.arg[2]
  /\ selectedFiles[1].name # selectedFiles[2].name

\* C19: in a running session the history changes only by a clear, which
\* empties it, or by a successful completion, which puts that call's item in
\* front of the items already there; these stay as they are and in their
\* order, so the item of the call that completed last is at the head.
C19_PrependOrClear ==
  [][(mounted /\ mounted') =>
       \/ history' = history
       \/ history' = <<>> /\ lastEvent'.op = "clearHistory"
       \/ /\ lastEvent'.op = "completion" /\ lastEvent'.arg.ok
          /\ Len(history') = Len(history) + 1
          /\ Tail(history') = history
          /\ Head(history').fileName = calls'[lastEvent'.arg.i].file.name
          /\ Head(history').result = calls'[lastEvent'.arg.i].outcome.value]_vars

\* both calls of a batch of two differently named files have succeeded, the
\* call of the first file last: its item is at the head
C19_Witness ==
  /\ mounted /\ lastEvent.op = "completion" /\ lastEvent.arg.ok /\ lastEvent.arg.i = 1
  /\ Len(files) = 2 /\ files[1].name # files[2].name
  /\ \A i \in DOMAIN calls : calls[i].kind = "batch" /\ calls[i].st = "settled"
  /\ Len(history) = 2
  /\ history[1].fileName = files[1].name /\ history[2].fileName = files[2].name

\* an add that makes the selection one file longer
GrowByAdd ==
  /\ \/ \E newFiles \in FileLists : HandleChange(newFiles)
     \/ \E newFiles \in FileLists : HandleDrop(newFiles)
     \/ AddMoreClick
  /\ Len(selectedFiles') = Len(selectedFiles) + 1

\* C20: in every idle state with a file selected and a PDF of an unselected
\* (name, size) at hand, an add (the 'add more files' button or a drop) can
\* make the selection one file longer.
C20_SelectionCanGrow ==
  (/\ FileUploadMounted /\ ~Disabled
   /\ Len(selectedFiles) >= 1
   /\ \E f \in FileObjects :
        /\ f.type = PDF
        /\ \A k \in 1..Len(selectedFiles) :
             ~(selectedFiles[k].name = f.name /\ selectedFiles[k].size = f.size))
    => ENABLED GrowByAdd

\* in 'idle' the state map is empty; in 'analyzing' and 'finished' files are
\* selected and the keys of the state map are their names
StatusMatchesMap ==
  /\ appStatus = "idle" => DOMAIN analysisStates = {}
  /\ appStatus \in {"analyzing", "finished"} =>
       /\ Len(files) > 0
       /\ DOMAIN analysisStates = { files[i].name : i \in 1..Len(files) }

\* C21: before and after every step, an idle App has an empty state map and
\* an analysing or finished App has a non-empty selection whose names are
\* the keys of the state map; and a step that starts and ends outside 'idle'
\* (between a batch start and the next reset) leaves the selection as it is.
C21_MapFollowsSelection ==
  [][/\ StatusMatchesMap
     /\ StatusMatchesMap'
     /\ (appStatus # "idle" /\ appStatus' # "idle") => files' = files]_vars

\* a retry has finished on a batch of two differently named files
C21_Witness ==
  /\ appStatus = "finished" /\ Len(files) = 2
  /\ Cardinality(DOMAIN analysisStates) = 2
  /\ \E i \in DOMAIN calls : calls[i].kind = "retry" /\ calls[i].st = "settled"

InFlight(kind) == { i \in DOMAIN calls : IsPending(calls[i]) /\ calls[i].kind = kind }

\* while a call is in flight the status is 'analyzing'; calls of a retry and
\* of a batch are never in flight together, and at most one retry call is
InFlightMeansAnalyzing ==
  /\ (\E i \in DOMAIN calls : IsPending(calls[i])) => appStatus = "analyzing"
  /\ Cardinality(InFlight("retry")) <= 1
  /\ InFlight("retry") # {} => InFlight("batch") = {}

\* C22: before and after every step, a call in flight means status
\* 'analyzing', with at most one retry call in flight and none next to a
\* batch call; and from status 'analyzing' no batch start, retry, reset,
\* history clear or change of the selection begins: the only steps are a
\* completion, the resumption of the waiting handler, or a reload of the page.
C22_NoOverlap ==
  [][/\ InFlightMeansAnalyzing
     /\ InFlightMeansAnalyzing'
     /\ appStatus = "analyzing" =>
          lastEvent'.op \in {"completion", "resume", "newSession"}]_vars

\* a second retry is in flight after an earlier retry of another file settled
C22_Witness ==
  /\ appStatus = "analyzing"
  /\ \E i, j \in DOMAIN calls :
       /\ i # j
       /\ IsPending(calls[i]) /\ calls[i].kind = "retry"
       /\ calls[j].kind = "retry" /\ calls[j].st = "settled"

=============================================================================
